---- MODULE Spec2Model ----
(***************************************************************************)
(* Model of zaptalk.py: the user_memory table behind the asyncpg pool, the *)
(* chat handler (one coroutine per inbound text message, split at its      *)
(* awaits) and the /reset handler.  Text is modelled by TLA+ strings, so   *)
(* strip(), len(), slicing and the f-string concatenations are computed on *)
(* the characters themselves.                                              *)
(*                                                                         *)
(* Spec lets the handlers of all updates overlap, as run_polling does, on  *)
(* a small set of texts and completions.  SeqSpec delivers an update only  *)
(* when no handler is running and draws from the larger sets AllTexts and  *)
(* AllCompletions, which hold the cases around the limits of 500 and 300   *)
(* characters.                                                             *)
(*                                                                         *)
(* The model call of line 109 has two outcomes in both: it suspends the    *)
(* handler like the other awaits, or it runs as a plain call that keeps    *)
(* the event loop until it returns, as the method of genai.GenerativeModel *)
(* does.  An acquire() on the exhausted pool waits for a release.          *)
(***************************************************************************)
EXTENDS Integers, Sequences, FiniteSets, TLC

\* ---------------------------------------------------------------- bounds
MaxTurns  == 2      \* chat updates delivered in one run
MaxResets == 1      \* /reset updates delivered in one run
NumUsers  == 2      \* distinct effective_user.id values
PoolSize  == 2      \* connections the pool hands out at once

Turns  == 1..MaxTurns
Resets == 1..MaxResets
Users  == 1..NumUsers

\* ------------------------------------------------------ program constants
MaxMessageLen == 500
MaxReplyLen   == 300

HINATA_PERSONA ==
    "Act as Hinata Hyuga from Naruto. You're kind, shy, gentle, and soft-spoken. "
    \o "Use short, human-like sentences with sweet and soft emojis (like blush, heart, sparkles). "
    \o "Speak naturally and affectionately. You're replying like a cute anime girl chatting with a friend."

REJECT_REPLY   == "Please send a shorter message."
FALLBACK_REPLY == "S-sorry... Something went wrong~"
RESET_REPLY    == "I've reset our conversation memory. Let's start fresh!"
ELLIPSIS       == "..."

\* ------------------------------------------------------------ text helpers
RECURSIVE Repeat(_, _)
Repeat(s, n) ==
    IF n = 0 THEN ""
    ELSE LET h == Repeat(s, n \div 2)
         IN  IF n % 2 = 0 THEN h \o h ELSE h \o h \o s

CharAt(s, i) == SubSeq(s, i, i)

IsSpace(c) == c \in {" ", "\n", "\t", "\r", "\f"}

\* str.strip(): drop leading and trailing whitespace
strip(s) ==
    LET n == Len(s)
    IN  IF \A i \in 1..n : IsSpace(CharAt(s, i)) THEN ""
        ELSE LET first == CHOOSE i \in 1..n :
                              /\ ~IsSpace(CharAt(s, i))
                              /\ \A j \in 1..(i - 1) : IsSpace(CharAt(s, j))
                 last  == CHOOSE i \in 1..n :
                              /\ ~IsSpace(CharAt(s, i))
                              /\ \A j \in (i + 1)..n : IsSpace(CharAt(s, j))
             IN  SubSeq(s, first, last)

\* s[:n]
Prefix(s, n) == IF Len(s) <= n THEN s ELSE SubSeq(s, 1, n)

\* ------------------------------------------------------------------ inputs
A500 == Repeat("a", MaxMessageLen)
B299 == Repeat("b", MaxReplyLen - 1)

\* update.message.text values delivered by the transport
AllTexts ==
    { "Hello",
      "  ",
      " \n" \o A500 \o "\t ",
      A500 \o "a" }

\* response.text values produced by the model
AllCompletions ==
    { "",
      " Hi! \n",
      B299 \o "b",
      B299 \o "  ",
      " " \o B299 \o "bc\n" }

\* the inputs of the runs with overlapping handlers
Texts == {"Hello", "  "}

Completions == {"", " Hi! \n"}

\* ------------------------------------------------- pure parts of the code
\* faulty variant: the length test of line 100 is missing
ValidMessage_NoLengthTest(user_message) == user_message # ""

\* chat, line 100: the guard is `not user_message or len(user_message) > 500`
ValidMessage(user_message) ==
    ~(user_message = "" \/ Len(user_message) > MaxMessageLen)

\* faulty variant: the prompt is built without the stored transcript
BuildPrompt_NoHistory(previous_convo, user_message) ==
    HINATA_PERSONA \o "\n\n" \o "\nUser: " \o user_message \o "\nHinata:"

\* chat, line 108
BuildPrompt(previous_convo, user_message) ==
    HINATA_PERSONA \o "\n\n" \o previous_convo
                   \o "\nUser: " \o user_message \o "\nHinata:"

\* faulty variant: line 113 cuts the reply without appending "..."
PostProcess_NoEllipsis(completion) ==
    Prefix(strip(completion), MaxReplyLen)

\* chat, lines 110-113
PostProcess(completion) ==
    LET stripped == strip(completion)
    IN  IF Len(stripped) > MaxReplyLen
        THEN Prefix(stripped, MaxReplyLen) \o ELLIPSIS
        ELSE stripped

\* faulty variant: line 115 appends the turn without the newline that separates it
\* from the transcript before it
UpdatedConvo_NoSeparator(previous_convo, user_message, reply) ==
    previous_convo \o "User: " \o user_message \o "\nHinata: " \o reply

\* faulty variant: line 115 puts the new record in front of the transcript
UpdatedConvo_Prepend(previous_convo, user_message, reply) ==
    "\nUser: " \o user_message \o "\nHinata: " \o reply \o previous_convo

\* chat, line 115
UpdatedConvo(previous_convo, user_message, reply) ==
    previous_convo \o "\nUser: " \o user_message \o "\nHinata: " \o reply

\* faulty variant: the `return ""` of line 57 is missing, a missing row gives None
get_user_conversation_NoDefault(table, user) ==
    IF user \in DOMAIN table THEN table[user] ELSE "None"

\* faulty variant: the SELECT result is ignored, every get gives ""
get_user_conversation_Forget(table, user) == ""

\* faulty variant: the WHERE clause is missing, fetchrow gives the first row
\* of the table
get_user_conversation_FirstRow(table, user) ==
    IF DOMAIN table = {} THEN ""
    ELSE table[CHOOSE v \in DOMAIN table : \A w \in DOMAIN table : v <= w]

\* lines 52-57: SELECT conversation FROM user_memory WHERE user_id=$1,
\* "" when there is no row
get_user_conversation(table, user) ==
    IF user \in DOMAIN table THEN table[user] ELSE ""

\* faulty variant: ON CONFLICT (user_id) DO NOTHING
save_user_conversation_DoNothing(table, user, conversation) ==
    IF user \in DOMAIN table
    THEN table
    ELSE [v \in (DOMAIN table) \cup {user} |->
             IF v = user THEN conversation ELSE table[v]]

\* faulty variant: the conflict clause sets the column in every row
save_user_conversation_AllRows(table, user, conversation) ==
    [v \in (DOMAIN table) \cup {user} |-> conversation]

\* faulty variant: DO UPDATE SET conversation = user_memory.conversation || EXCLUDED.conversation
save_user_conversation_Concat(table, user, conversation) ==
    [v \in (DOMAIN table) \cup {user} |->
        IF v = user
        THEN (IF user \in DOMAIN table THEN table[user] ELSE "") \o conversation
        ELSE table[v]]

\* faulty variant: UPDATE user_memory SET conversation = $2 WHERE user_id = $1,
\* a missing row is not inserted
save_user_conversation_UpdateOnly(table, user, conversation) ==
    [v \in DOMAIN table |-> IF v = user THEN conversation ELSE table[v]]

\* faulty variant: the statement is skipped when the conversation is empty
save_user_conversation_SkipEmpty(table, user, conversation) ==
    IF conversation = "" THEN table
    ELSE [v \in (DOMAIN table) \cup {user} |->
             IF v = user THEN conversation ELSE table[v]]

\* lines 60-65: INSERT ... ON CONFLICT (user_id) DO UPDATE
\* SET conversation = EXCLUDED.conversation
save_user_conversation(table, user, conversation) ==
    [v \in (DOMAIN table) \cup {user} |->
        IF v = user THEN conversation ELSE table[v]]

\* faulty variant: the try block starts after the get of line 107
InTry_AfterGet(label) ==
    label \in {"generate", "save_acquire", "save_execute", "reply"}

\* the awaits of chat that sit inside its try block (lines 106-118)
InTry(label) ==
    label \in {"get_acquire", "get_fetch", "generate",
               "save_acquire", "save_execute", "reply"}

\* faulty variant: a failed model call is made again
AfterRaise_RetryModel(label) ==
    IF label = "generate" THEN "generate"
    ELSE IF InTry(label) THEN "except" ELSE "done"

\* where chat continues when the await at `label` raises
AfterRaise(label) == IF InTry(label) THEN "except" ELSE "done"

\* -------------------------------------------------------------------- state
VARIABLES
    user_memory,    \* the table: user_id -> conversation, rows only for saved users
    pool_in_use,    \* connections of db_pool currently acquired
    pc,             \* chat handler: the await each coroutine is at
    text,           \* update.message.text
    user_id,        \* chat locals
    user_message,
    previous_convo,
    prompt,
    response,
    reply,
    updated_convo,
    reply_texts,    \* texts chat passed to update.message.reply_text, in order
    raised,         \* exception that left the chat handler ("none" if none)
    rpc,            \* reset_command: the await each coroutine is at
    ruser,          \* reset_command local user_id
    rreply_texts,
    rraised,
    blocking,       \* turns inside a call that does not yield to the event loop
    \* history of the run, written but never read by the handlers
    failed,         \* chat: the await that raised ("none" if none)
    calls,          \* chat: number of get / model / save calls started
    writes,         \* chat: number of statements that changed the table
    last_saved,     \* per user: argument of the last save that executed
    last_writer,    \* per user: handler whose save executed last
    saved_log,      \* per user: turns whose save executed, in that order
    seen_saves,     \* chat: saves of the user's turns executed when it read the row
    seen_resets,    \* chat: resets of the user executed when it read the row
    waited,         \* chat: the pending acquire found every connection in use
    seq_ok,         \* per user: the turns that saved ran one after another, in arrival order
    reset_seen,     \* per user: a /reset was delivered
    cleared_at,     \* per user: turn saves executed when its last reset executed
    users_seen      \* users are numbered in order of first appearance

frame  == <<user_message, previous_convo, prompt, response, reply,
            updated_convo, seen_saves, seen_resets>>
locals == <<text, user_id, frame, waited>>
chatv  == <<pc, reply_texts, raised>>
resetv == <<rpc, ruser, rreply_texts, rraised>>
turnh  == <<failed, calls, writes>>
userh  == <<last_saved, last_writer, saved_log, seq_ok, reset_seen,
            cleared_at, users_seen>>
vars   == <<user_memory, pool_in_use, locals, chatv, resetv, turnh, userh,
            blocking>>

\* values of the history variables and of unbound locals
NoWrite    == <<"none">>
ResetWrite == <<"reset">>
TurnWrite(t) == <<"turn", t>>
NoSave     == "<no save>"
Unset      == "<unset>"

Init ==
    /\ user_memory = << >>
    /\ pool_in_use = 0
    /\ pc = [t \in Turns |-> "idle"]
    /\ text = [t \in Turns |-> Unset]
    /\ user_id = [t \in Turns |-> Unset]
    /\ user_message = [t \in Turns |-> Unset]
    /\ previous_convo = [t \in Turns |-> Unset]
    /\ prompt = [t \in Turns |-> Unset]
    /\ response = [t \in Turns |-> Unset]
    /\ reply = [t \in Turns |-> Unset]
    /\ updated_convo = [t \in Turns |-> Unset]
    /\ reply_texts = [t \in Turns |-> << >>]
    /\ raised = [t \in Turns |-> "none"]
    /\ rpc = [r \in Resets |-> "idle"]
    /\ ruser = [r \in Resets |-> Unset]
    /\ rreply_texts = [r \in Resets |-> << >>]
    /\ rraised = [r \in Resets |-> "none"]
    /\ blocking = {}
    /\ failed = [t \in Turns |-> "none"]
    /\ calls = [t \in Turns |-> [get |-> 0, model |-> 0, save |-> 0]]
    /\ writes = [t \in Turns |-> 0]
    /\ last_saved = [u \in Users |-> NoSave]
    /\ last_writer = [u \in Users |-> NoWrite]
    /\ saved_log = [u \in Users |-> << >>]
    /\ seq_ok = [u \in Users |-> TRUE]
    /\ reset_seen = [u \in Users |-> FALSE]
    /\ cleared_at = [u \in Users |-> 0]
    /\ seen_saves = [t \in Turns |-> 0]
    /\ seen_resets = [t \in Turns |-> 0]
    /\ waited = [t \in Turns |-> FALSE]
    /\ users_seen = 0

\* ------------------------------------------------------------ chat handler
\* turn t, about to save, ran after every turn of its user that saved
\* before it: none of them saved since t read the table, and t arrived
\* after the last of them
RanAfter(t) ==
    LET log == saved_log[user_id[t]]
    IN  /\ Len(log) = seen_saves[t]
        /\ log # << >> => log[Len(log)].turn < t

\* every connection of db_pool is acquired: a further acquire() is queued
\* until one is released
PoolExhausted == pool_in_use = PoolSize

\* the resets of user u whose save has executed: reset_command is past
\* line 92 without an exception
ResetsExecuted(u) ==
    Cardinality({r \in Resets :
                    /\ \/ rpc[r] = "reply"
                       \/ rpc[r] = "done" /\ rraised[r] # "StorageError"
                    /\ ruser[r] = u})

\* nothing reads the locals of the try block once it is left: by a return,
\* by an exception leaving the handler, or by entering the except clause
DropFrame(t) ==
    /\ user_message' = [user_message EXCEPT ![t] = Unset]
    /\ previous_convo' = [previous_convo EXCEPT ![t] = Unset]
    /\ prompt' = [prompt EXCEPT ![t] = Unset]
    /\ response' = [response EXCEPT ![t] = Unset]
    /\ reply' = [reply EXCEPT ![t] = Unset]
    /\ updated_convo' = [updated_convo EXCEPT ![t] = Unset]
    /\ seen_saves' = [seen_saves EXCEPT ![t] = 0]
    /\ seen_resets' = [seen_resets EXCEPT ![t] = 0]
    /\ waited' = [waited EXCEPT ![t] = FALSE]

\* the handler is left: the update it was called with is gone as well
DropUpdate(t) ==
    /\ text' = [text EXCEPT ![t] = Unset]
    /\ user_id' = [user_id EXCEPT ![t] = Unset]

\* the await at pc[t] raises an exception of class `kind`.  Inside the try
\* block the except clause of line 120 takes it and goes straight into the
\* reply_text of line 122; otherwise the exception leaves the handler
RaiseAt(t, kind, stage) ==
    /\ pc' = [pc EXCEPT ![t] = AfterRaise(pc[t])]
    /\ failed' = [failed EXCEPT ![t] = stage]
    /\ DropFrame(t)
    /\ IF AfterRaise(pc[t]) = "except"
       THEN /\ reply_texts' = [reply_texts EXCEPT ![t] =
                                   Append(@, FALLBACK_REPLY)]
            /\ UNCHANGED <<raised, text, user_id>>
       ELSE /\ raised' = [raised EXCEPT ![t] = kind]
            /\ DropUpdate(t)
            /\ UNCHANGED reply_texts

\* the await at pc[t] completes and the handler runs on to the await `label`
Continue(t, label) ==
    /\ pc' = [pc EXCEPT ![t] = label]
    /\ UNCHANGED <<raised, failed, text, user_id>>

\* the handler ends: by its return when `ok`, else by the exception of the
\* reply_text it was awaiting outside the try block
Leave(t, ok) ==
    /\ pc' = [pc EXCEPT ![t] = "done"]
    /\ raised' = [raised EXCEPT ![t] = IF ok THEN @ ELSE "TransportError"]
    /\ DropFrame(t)
    /\ DropUpdate(t)

\* lines 97-104 up to the first await, which is the reply_text of line 101
\* or the send_chat_action of line 104; updates are numbered in arrival
\* order and users in order of first appearance
Receive(t, u, txt) ==
    /\ pc[t] = "idle"
    /\ \A o \in Turns : o < t => pc[o] # "idle"
    /\ u <= users_seen + 1
    /\ users_seen' = IF u > users_seen THEN u ELSE users_seen
    /\ text' = [text EXCEPT ![t] = txt]
    /\ user_id' = [user_id EXCEPT ![t] = u]
    /\ user_message' = [user_message EXCEPT ![t] = strip(txt)]
    /\ IF ValidMessage(strip(txt))
       THEN /\ pc' = [pc EXCEPT ![t] = "typing"]
            /\ UNCHANGED reply_texts
       ELSE /\ pc' = [pc EXCEPT ![t] = "reject"]
            /\ reply_texts' = [reply_texts EXCEPT ![t] =
                                   Append(@, REJECT_REPLY)]
    /\ UNCHANGED <<user_memory, pool_in_use, previous_convo, prompt, response,
                   reply, updated_convo, seen_saves, seen_resets, waited,
                   raised, resetv, turnh,
                   last_saved, last_writer, saved_log, seq_ok, reset_seen,
                   cleared_at>>

\* lines 101-102: the reply_text of the rejection ends; return
RejectReply(t, ok) ==
    /\ pc[t] = "reject"
    /\ Leave(t, ok)
    /\ UNCHANGED <<user_memory, pool_in_use, reply_texts, resetv, turnh,
                   userh>>

\* line 104: send_chat_action ends; it is before the try block
Typing(t, ok) ==
    /\ pc[t] = "typing"
    /\ IF ok
       THEN /\ Continue(t, "get_acquire")
            /\ waited' = [waited EXCEPT ![t] = PoolExhausted]
            /\ UNCHANGED <<frame, reply_texts>>
       ELSE RaiseAt(t, "TransportError", "typing")
    /\ UNCHANGED <<user_memory, pool_in_use, resetv, calls, writes, userh>>

\* line 107 -> line 53: db_pool.acquire() waits while no connection is free
GetAcquire(t, ok) ==
    /\ pc[t] = "get_acquire"
    /\ calls' = [calls EXCEPT ![t].get = @ + 1]
    /\ IF ok
       THEN /\ pool_in_use < PoolSize
            /\ pool_in_use' = pool_in_use + 1
            /\ Continue(t, "get_fetch")
            /\ UNCHANGED <<frame, waited, reply_texts>>
       ELSE /\ RaiseAt(t, "StorageError", "get")
            /\ UNCHANGED pool_in_use
    /\ UNCHANGED <<user_memory, resetv, writes, userh>>

\* lines 54-57, the connection is released on leaving the `async with`;
\* then line 108
GetFetch(t, ok) ==
    /\ pc[t] = "get_fetch"
    /\ pool_in_use' = pool_in_use - 1
    /\ IF ok
       THEN /\ previous_convo' = [previous_convo EXCEPT ![t] =
                    get_user_conversation(user_memory, user_id[t])]
            /\ prompt' = [prompt EXCEPT ![t] =
                    BuildPrompt(previous_convo'[t], user_message[t])]
            /\ seen_saves' = [seen_saves EXCEPT ![t] =
                    Len(saved_log[user_id[t]])]
            /\ seen_resets' = [seen_resets EXCEPT ![t] =
                    ResetsExecuted(user_id[t])]
            /\ waited' = [waited EXCEPT ![t] = FALSE]
            /\ Continue(t, "generate")
            /\ UNCHANGED <<user_message, response, reply, updated_convo,
                           reply_texts>>
       ELSE RaiseAt(t, "StorageError", "get")
    /\ UNCHANGED <<user_memory, resetv, calls, writes, userh>>

\* line 109 with generate_content the plain method that genai.GenerativeModel
\* (line 23) defines: the request runs inside the thread of the event loop,
\* which resumes no other handler until the call returns
GenerateBlocking(t) ==
    /\ pc[t] = "generate"
    /\ blocking = {}
    /\ blocking' = {t}
    /\ UNCHANGED <<user_memory, pool_in_use, locals, chatv, resetv, turnh,
                   userh>>

\* line 109 returns a response whose text is `completion`; then lines 110-115
GenerateOk(t, completion) ==
    /\ pc[t] = "generate"
    /\ calls' = [calls EXCEPT ![t].model = @ + 1]
    /\ response' = [response EXCEPT ![t] = completion]
    /\ reply' = [reply EXCEPT ![t] = PostProcess(completion)]
    /\ updated_convo' = [updated_convo EXCEPT ![t] =
            UpdatedConvo(previous_convo[t], user_message[t], reply'[t])]
    /\ waited' = [waited EXCEPT ![t] = PoolExhausted]
    /\ Continue(t, "save_acquire")
    /\ UNCHANGED <<user_memory, pool_in_use, user_message, previous_convo,
                   prompt, seen_saves, seen_resets, reply_texts, resetv,
                   writes, userh>>

\* line 109 or the response.text of line 110 raises (provider failure,
\* blocked or malformed response)
GenerateFail(t) ==
    /\ pc[t] = "generate"
    /\ calls' = [calls EXCEPT ![t].model = @ + 1]
    /\ RaiseAt(t, "ModelError", "model")
    /\ UNCHANGED <<user_memory, pool_in_use, resetv, writes, userh>>

\* line 116 -> line 61
SaveAcquire(t, ok) ==
    /\ pc[t] = "save_acquire"
    /\ calls' = [calls EXCEPT ![t].save = @ + 1]
    /\ IF ok
       THEN /\ pool_in_use < PoolSize
            /\ pool_in_use' = pool_in_use + 1
            /\ Continue(t, "save_execute")
            /\ UNCHANGED <<frame, waited, reply_texts>>
       ELSE /\ RaiseAt(t, "StorageError", "save")
            /\ UNCHANGED pool_in_use
    /\ UNCHANGED <<user_memory, resetv, writes, userh>>

\* lines 62-65: the upsert is one statement, and a statement that raises
\* changes nothing; then line 118 up to the await of reply_text(reply)
SaveExecute(t, ok) ==
    /\ pc[t] = "save_execute"
    /\ pool_in_use' = pool_in_use - 1
    /\ IF ok
       THEN /\ user_memory' = save_user_conversation(user_memory, user_id[t],
                                                     updated_convo[t])
            /\ writes' = [writes EXCEPT ![t] = @ + 1]
            /\ last_saved' = [last_saved EXCEPT ![user_id[t]] = updated_convo[t]]
            /\ last_writer' = [last_writer EXCEPT ![user_id[t]] = TurnWrite(t)]
            /\ saved_log' = [saved_log EXCEPT ![user_id[t]] =
                    Append(@, [turn |-> t, loaded |-> previous_convo[t],
                               message |-> user_message[t],
                               reply |-> reply[t],
                               stale |-> seen_resets[t] #
                                             ResetsExecuted(user_id[t])])]
            /\ seq_ok' = [seq_ok EXCEPT ![user_id[t]] = @ /\ RanAfter(t)]
            /\ reply_texts' = [reply_texts EXCEPT ![t] = Append(@, reply[t])]
            /\ waited' = [waited EXCEPT ![t] = FALSE]
            /\ Continue(t, "reply")
            /\ UNCHANGED frame
       ELSE /\ RaiseAt(t, "StorageError", "save")
            /\ UNCHANGED <<user_memory, writes, last_saved, last_writer,
                           saved_log, seq_ok>>
    /\ UNCHANGED <<resetv, calls, reset_seen, cleared_at, users_seen>>

\* line 118: the reply_text of the generated reply ends
Reply(t, ok) ==
    /\ pc[t] = "reply"
    /\ IF ok
       THEN Leave(t, TRUE) /\ UNCHANGED <<failed, reply_texts>>
       ELSE RaiseAt(t, "TransportError", "send")
    /\ UNCHANGED <<user_memory, pool_in_use, resetv, calls, writes, userh>>

\* lines 120-122: the reply_text of the fallback ends
Except(t, ok) ==
    /\ pc[t] = "except"
    /\ Leave(t, ok)
    /\ UNCHANGED <<user_memory, pool_in_use, reply_texts, resetv, turnh,
                   userh>>

\* ----------------------------------------------------------- reset_command
\* line 91, up to the await of line 92
ResetReceive(r, u) ==
    /\ rpc[r] = "idle"
    /\ \A o \in Resets : o < r => rpc[o] # "idle"
    /\ u <= users_seen + 1
    /\ users_seen' = IF u > users_seen THEN u ELSE users_seen
    /\ ruser' = [ruser EXCEPT ![r] = u]
    /\ rpc' = [rpc EXCEPT ![r] = "save_acquire"]
    /\ reset_seen' = [reset_seen EXCEPT ![u] = TRUE]
    /\ UNCHANGED <<user_memory, pool_in_use, locals, chatv, rreply_texts,
                   rraised, turnh, last_saved, last_writer, saved_log, seq_ok,
                   cleared_at>>

\* line 92 -> line 61; reset_command has no try block
ResetSaveAcquire(r, ok) ==
    /\ rpc[r] = "save_acquire"
    /\ IF ok
       THEN /\ pool_in_use < PoolSize
            /\ pool_in_use' = pool_in_use + 1
            /\ rpc' = [rpc EXCEPT ![r] = "save_execute"]
            /\ UNCHANGED rraised
       ELSE /\ rpc' = [rpc EXCEPT ![r] = "done"]
            /\ rraised' = [rraised EXCEPT ![r] = "StorageError"]
            /\ UNCHANGED pool_in_use
    /\ UNCHANGED <<user_memory, locals, chatv, ruser, rreply_texts, turnh,
                   userh>>

\* line 92 -> lines 62-65 with conversation = ""; then line 93 up to the
\* await of reply_text
ResetSaveExecute(r, ok) ==
    /\ rpc[r] = "save_execute"
    /\ pool_in_use' = pool_in_use - 1
    /\ IF ok
       THEN /\ user_memory' = save_user_conversation(user_memory, ruser[r], "")
            /\ last_saved' = [last_saved EXCEPT ![ruser[r]] = ""]
            /\ last_writer' = [last_writer EXCEPT ![ruser[r]] = ResetWrite]
            /\ cleared_at' = [cleared_at EXCEPT ![ruser[r]] =
                                  Len(saved_log[ruser[r]])]
            /\ rreply_texts' = [rreply_texts EXCEPT ![r] =
                                    Append(@, RESET_REPLY)]
            /\ rpc' = [rpc EXCEPT ![r] = "reply"]
            /\ UNCHANGED rraised
       ELSE /\ rpc' = [rpc EXCEPT ![r] = "done"]
            /\ rraised' = [rraised EXCEPT ![r] = "StorageError"]
            /\ UNCHANGED <<user_memory, last_saved, last_writer, cleared_at,
                           rreply_texts>>
    /\ UNCHANGED <<locals, chatv, ruser, turnh, saved_log,
                   seq_ok, reset_seen, users_seen>>

\* line 93: the reply_text ends
ResetReply(r, ok) ==
    /\ rpc[r] = "reply"
    /\ rpc' = [rpc EXCEPT ![r] = "done"]
    /\ rraised' = [rraised EXCEPT ![r] = IF ok THEN @ ELSE "TransportError"]
    /\ UNCHANGED <<user_memory, pool_in_use, locals, chatv, ruser,
                   rreply_texts, turnh, userh>>

\* ------------------------------------------------------------ specification
\* one step of a chat handler past its arrival
ChatStep(t, completions) ==
    \/ \E ok \in BOOLEAN : RejectReply(t, ok)
    \/ \E ok \in BOOLEAN : Typing(t, ok)
    \/ \E ok \in BOOLEAN : GetAcquire(t, ok)
    \/ \E ok \in BOOLEAN : GetFetch(t, ok)
    \/ \E completion \in completions : GenerateOk(t, completion)
    \/ GenerateFail(t)
    \/ \E ok \in BOOLEAN : SaveAcquire(t, ok)
    \/ \E ok \in BOOLEAN : SaveExecute(t, ok)
    \/ \E ok \in BOOLEAN : Reply(t, ok)
    \/ \E ok \in BOOLEAN : Except(t, ok)

\* one step of a reset handler past its arrival
ResetStep(r) ==
    \/ \E ok \in BOOLEAN : ResetSaveAcquire(r, ok)
    \/ \E ok \in BOOLEAN : ResetSaveExecute(r, ok)
    \/ \E ok \in BOOLEAN : ResetReply(r, ok)

\* the event loop resumes turn t: no other handler is inside a call that
\* keeps the loop; a blocking call of t itself ends with this step
TurnStep(t, completions) ==
    /\ blocking \subseteq {t}
    /\ ChatStep(t, completions)
    /\ blocking' = {}

\* the event loop starts or resumes a handler other than a chat handler
\* past its arrival
LoopFree ==
    /\ blocking = {}
    /\ UNCHANGED blocking

\* run_polling dispatches updates as they come: handlers overlap freely
Next ==
    \/ \E t \in Turns, u \in Users, txt \in Texts :
           LoopFree /\ Receive(t, u, txt)
    \/ \E r \in Resets, u \in Users : LoopFree /\ ResetReceive(r, u)
    \/ \E t \in Turns : TurnStep(t, Completions)
    \/ \E r \in Resets : LoopFree /\ ResetStep(r)
    \/ \E t \in Turns : GenerateBlocking(t)

Spec == Init /\ [][Next]_vars

\* no handler is between its arrival and its end
Quiet ==
    /\ \A t \in Turns : pc[t] \in {"idle", "done"}
    /\ \A r \in Resets : rpc[r] \in {"idle", "done"}

\* the transport delivers an update only after the handler of the previous
\* one has ended: handlers run one after another
SeqNext ==
    \/ \E t \in Turns, u \in Users, txt \in AllTexts :
           Quiet /\ LoopFree /\ Receive(t, u, txt)
    \/ \E r \in Resets, u \in Users :
           Quiet /\ LoopFree /\ ResetReceive(r, u)
    \/ \E t \in Turns : TurnStep(t, AllCompletions)
    \/ \E r \in Resets : LoopFree /\ ResetStep(r)
    \/ \E t \in Turns : GenerateBlocking(t)

SeqSpec == Init /\ [][SeqNext]_vars

TypeOK ==
    /\ DOMAIN user_memory \subseteq Users
    /\ pool_in_use \in 0..PoolSize
    /\ blocking \subseteq Turns
    /\ \A t \in Turns : pc[t] \in {"idle", "reject", "typing", "get_acquire",
                                   "get_fetch", "generate", "save_acquire",
                                   "save_execute", "reply", "except", "done"}

\* ------------------------------------------------------------------ claims
\* the SELECT of turn t returns in this step
Fetched(t) == pc[t] = "get_fetch" /\ pc'[t] = "generate"

\* C1: whenever the get of a turn returns for a user who has no row in the
\* table, whatever rows other users have, the transcript it returns is the
\* empty string
C1_GetMissingIsEmpty ==
    [][\A t \in Turns :
          (Fetched(t) /\ user_id[t] \notin DOMAIN user_memory)
              => previous_convo'[t] = ""]_vars

\* a get has returned "" for a user without a row while another user has one
C1_Witness ==
    \E t \in Turns :
        /\ pc[t] = "generate"
        /\ user_id[t] \notin DOMAIN user_memory
        /\ DOMAIN user_memory # {}
        /\ previous_convo[t] = ""

\* C2: the get of a turn returns exactly the transcript passed to the last
\* save executed for that user (by a turn or by a reset), whether that save
\* created the row or replaced an earlier value
C2_SaveGetRoundTrip ==
    [][\A t \in Turns :
          (Fetched(t) /\ last_saved[user_id[t]] # NoSave)
              => previous_convo'[t] = last_saved[user_id[t]]]_vars

\* a get has returned a transcript that a save wrote over an earlier value
C2_Witness ==
    \E t \in Turns :
        /\ pc[t] = "generate"
        /\ last_writer[user_id[t]] = ResetWrite
        /\ saved_log[user_id[t]] # << >>
        /\ previous_convo[t] = last_saved[user_id[t]]

\* the save of reset r executes in this step
ResetSaved(r) == rpc[r] = "save_execute" /\ rpc'[r] = "reply"

\* C3: when the save of a reset executes, the user's row holds the empty
\* string afterwards whatever it held before, every other user's row is as
\* before, and a get that follows with no save in between returns ""
C3_ResetClears ==
    [][/\ \A r \in Resets :
             ResetSaved(r) =>
                 /\ ruser[r] \in DOMAIN user_memory'
                 /\ user_memory'[ruser[r]] = ""
                 /\ \A v \in Users \ {ruser[r]} :
                        /\ v \in DOMAIN user_memory' <=> v \in DOMAIN user_memory
                        /\ v \in DOMAIN user_memory
                               => user_memory'[v] = user_memory[v]
       /\ \A t \in Turns :
             (Fetched(t) /\ last_writer[user_id[t]] = ResetWrite)
                 => previous_convo'[t] = ""]_vars

\* a reset has cleared a non-empty transcript while another user has one
C3_Witness ==
    \E r \in Resets :
        /\ rpc[r] = "reply"
        /\ saved_log[ruser[r]] # << >>
        /\ last_writer[ruser[r]] = ResetWrite
        /\ user_memory[ruser[r]] = ""
        /\ \E v \in DOMAIN user_memory : user_memory[v] # ""

NoCalls == [get |-> 0, model |-> 0, save |-> 0]

\* the inbound texts that are empty or longer than 500 characters once
\* trimmed, and those that are so as received
RejectableTexts ==
    {x \in AllTexts \cup Texts :
        strip(x) = "" \/ Len(strip(x)) > MaxMessageLen}

OverlongOrBlankTexts ==
    {x \in AllTexts \cup Texts : Len(x) > MaxMessageLen \/ strip(x) = ""}

\* C4 as amended: a turn whose message is empty or longer than 500
\* characters after trimming awaits only the reply_text of the fixed
\* rejection reply; it has started no get, no model call and no save and
\* has written nothing, and that holds of every turn that was answered with
\* the rejection reply
C4_RejectedTurn ==
    \A t \in Turns :
        /\ text[t] \in RejectableTexts =>
               /\ pc[t] = "reject"
               /\ reply_texts[t] = <<REJECT_REPLY>>
               /\ calls[t] = NoCalls
               /\ writes[t] = 0
        /\ (reply_texts[t] # << >> /\ reply_texts[t][1] = REJECT_REPLY) =>
               /\ pc[t] \in {"reject", "done"}
               /\ reply_texts[t] = <<REJECT_REPLY>>
               /\ calls[t] = NoCalls
               /\ writes[t] = 0

\* C4 as claimed: every message longer than 500 characters as received, or
\* empty after trimming, is rejected
C4_Original ==
    \A t \in Turns :
        text[t] \in OverlongOrBlankTexts =>
            /\ pc[t] = "reject"
            /\ reply_texts[t] = <<REJECT_REPLY>>
            /\ calls[t] = NoCalls

\* a message of more than 500 characters has been rejected while the table
\* holds a transcript
C4_Witness ==
    \E t \in Turns :
        /\ pc[t] = "reject"
        /\ Len(user_message[t]) > MaxMessageLen
        /\ reply_texts[t] = <<REJECT_REPLY>>
        /\ \E v \in DOMAIN user_memory : user_memory[v] # ""

\* the completions after strip()
Trimmed == [c \in AllCompletions \cup Completions |-> strip(c)]

\* C5 as amended: when the completion is longer than 300 characters after
\* trimming, the reply is the first 300 characters of the trimmed completion
\* followed by "...", 303 characters; otherwise it is the trimmed
\* completion; and that reply is the text handed to reply_text after the save
C5_ReplyTruncation ==
    \A t \in Turns :
        response[t] # Unset =>
            /\ Len(Trimmed[response[t]]) > MaxReplyLen =>
                   /\ reply[t] = SubSeq(Trimmed[response[t]], 1, MaxReplyLen)
                                     \o "..."
                   /\ Len(reply[t]) = 303
            /\ Len(Trimmed[response[t]]) <= MaxReplyLen =>
                   reply[t] = Trimmed[response[t]]
            /\ pc[t] = "reply" => reply_texts[t] = <<reply[t]>>

\* C5 as claimed: for every completion longer than 300 characters the reply
\* is the first 300 characters of the completion followed by "..."
C5_Original ==
    \A t \in Turns :
        (response[t] # Unset /\ Len(response[t]) > MaxReplyLen) =>
            /\ reply[t] = SubSeq(response[t], 1, MaxReplyLen) \o "..."
            /\ Len(reply[t]) = 303

\* a truncated reply of 303 characters has been saved and handed to reply_text
C5_Witness ==
    \E t \in Turns :
        /\ pc[t] = "reply"
        /\ Len(response[t]) > MaxReplyLen
        /\ Len(reply[t]) = 303
        /\ reply_texts[t] = <<reply[t]>>

\* C6 as amended: the prompt is the persona, a blank line, the transcript
\* this turn's get returned, a newline, the line `User: <message>` and the
\* cue "Hinata:"; for an empty transcript and the message "Hello" that is
\* the persona followed by "\n\n\nUser: Hello\nHinata:"
C6_Prompt ==
    \A t \in Turns :
        prompt[t] # Unset =>
            /\ prompt[t] = HINATA_PERSONA \o "\n\n" \o previous_convo[t]
                               \o "\n" \o "User: " \o user_message[t] \o "\n"
                               \o "Hinata:"
            /\ (previous_convo[t] = "" /\ user_message[t] = "Hello") =>
                   prompt[t] = HINATA_PERSONA \o "\n\n\nUser: Hello\nHinata:"

\* C6 as claimed: nothing stands between the transcript and the line
\* `User: <message>`
C6_Original ==
    \A t \in Turns :
        prompt[t] # Unset =>
            /\ prompt[t] = HINATA_PERSONA \o "\n\n" \o previous_convo[t]
                               \o "User: " \o user_message[t] \o "\n"
                               \o "Hinata:"
            /\ (previous_convo[t] = "" /\ user_message[t] = "Hello") =>
                   prompt[t] = HINATA_PERSONA \o "\n\n" \o ""
                                   \o "User: Hello\nHinata:"

\* a prompt has been built around a non-empty transcript
C6_Witness ==
    \E t \in Turns :
        /\ pc[t] = "generate"
        /\ previous_convo[t] # ""
        /\ Len(prompt[t]) > Len(HINATA_PERSONA) + Len(previous_convo[t])

\* C7: the transcript a turn passes to save is the transcript its get
\* returned followed by "\nUser: <message>\nHinata: <reply>"; once the save
\* has executed it is the stored transcript, the reply in it is the reply
\* handed to reply_text, and from an empty transcript and the message
\* "Hello" the stored transcript is "\nUser: Hello\nHinata: <reply>"
C7_SavedTranscript ==
    \A t \in Turns :
        /\ pc[t] \in {"save_acquire", "save_execute", "reply"} =>
               updated_convo[t] = previous_convo[t] \o "\nUser: "
                                      \o user_message[t] \o "\nHinata: "
                                      \o reply[t]
        /\ pc[t] = "reply" =>
               /\ last_saved[user_id[t]] = updated_convo[t]
               /\ user_memory[user_id[t]] = updated_convo[t]
               /\ reply_texts[t] = <<reply[t]>>
               /\ (previous_convo[t] = "" /\ user_message[t] = "Hello") =>
                      user_memory[user_id[t]] =
                          "\nUser: Hello\nHinata: " \o reply[t]

\* a turn has extended a non-empty transcript and its save has executed
C7_Witness ==
    \E t \in Turns :
        /\ pc[t] = "reply"
        /\ previous_convo[t] # ""
        /\ reply[t] # ""
        /\ user_memory[user_id[t]] = updated_convo[t]

\* C8: a turn whose get, model call or save raised has handed exactly the
\* fixed fallback reply to reply_text, has started no call after the one
\* that raised (none at all of the model or of save after a failed get),
\* has written nothing to the table, and the exception did not leave the
\* handler: the only exception that can is that of the fallback's own
\* reply_text
C8_FailureFallback ==
    \A t \in Turns :
        failed[t] \in {"get", "model", "save"} =>
            /\ pc[t] \in {"except", "done"}
            /\ reply_texts[t] = <<FALLBACK_REPLY>>
            /\ writes[t] = 0
            /\ raised[t] \in {"none", "TransportError"}
            /\ pc[t] = "except" => raised[t] = "none"
            /\ failed[t] = "get" => calls[t] = [get |-> 1, model |-> 0, save |-> 0]
            /\ failed[t] = "model" => calls[t] = [get |-> 1, model |-> 1, save |-> 0]
            /\ failed[t] = "save" => calls[t] = [get |-> 1, model |-> 1, save |-> 1]

\* one turn has ended with the fallback after its get raised, another after
\* its save raised
C8_Witness ==
    \E t, o \in Turns :
        /\ pc[t] = "done" /\ failed[t] = "get" /\ raised[t] = "none"
        /\ pc[o] = "done" /\ failed[o] = "save" /\ raised[o] = "none"
        /\ reply_texts[t] = <<FALLBACK_REPLY>>
        /\ reply_texts[o] = <<FALLBACK_REPLY>>

\* the record one turn appends
Record(e) == "\nUser: " \o e.message \o "\nHinata: " \o e.reply

RECURSIVE ConcatRecords(_)
ConcatRecords(log) ==
    IF log = << >> THEN ""
    ELSE ConcatRecords(SubSeq(log, 1, Len(log) - 1)) \o Record(log[Len(log)])

\* C9: as long as the turns of a user that saved have run one after another
\* in arrival order (each read the table after the save of every one before
\* it) and no reset was delivered for the user, the stored transcript is the
\* concatenation of the records of those turns in arrival order, each
\* exactly once; there is no row before the first save
C9_SequentialAccumulation ==
    \A u \in Users :
        (seq_ok[u] /\ ~reset_seen[u]) =>
            /\ saved_log[u] = << >> <=> u \notin DOMAIN user_memory
            /\ saved_log[u] # << >> =>
                   user_memory[u] = ConcatRecords(saved_log[u])
            /\ \A i, j \in 1..Len(saved_log[u]) :
                   i < j => saved_log[u][i].turn < saved_log[u][j].turn

\* two turns of one user have run one after the other, both to their end
\* without any failure, and the transcript holds both records
C9_Witness ==
    \E u \in Users :
        /\ seq_ok[u] /\ ~reset_seen[u]
        /\ Len(saved_log[u]) >= 2
        /\ \A t \in Turns : pc[t] = "done" /\ failed[t] = "none"
        /\ user_memory[u] = ConcatRecords(saved_log[u])

\* C10: when the last two saves of a user's turns were computed from the
\* same loaded transcript and the later one is the last write to the row,
\* the stored transcript is that transcript followed by the later turn's
\* record alone: the earlier turn's record is not in it
C10_LastWriteWins ==
    \A u \in Users :
        LET log == saved_log[u]
            n   == Len(log)
        IN  (/\ n >= 2
             /\ log[n - 1].loaded = log[n].loaded
             /\ last_writer[u] = TurnWrite(log[n].turn)) =>
                /\ user_memory[u] = log[n].loaded \o Record(log[n])
                /\ Len(user_memory[u]) < Len(log[n].loaded)
                       + Len(Record(log[n - 1])) + Len(Record(log[n]))

\* two overlapping turns of one user have both ended without failure, each
\* with its generated reply handed to reply_text, and the transcript holds
\* the record of the later save only
C10_Witness ==
    \E u \in Users :
        LET log == saved_log[u]
        IN  /\ Len(log) = 2
            /\ log[1].loaded = log[2].loaded
            /\ last_writer[u] = TurnWrite(log[2].turn)
            /\ \A i \in 1..2 :
                   /\ pc[log[i].turn] = "done"
                   /\ failed[log[i].turn] = "none"
                   /\ raised[log[i].turn] = "none"
                   /\ reply_texts[log[i].turn] = <<log[i].reply>>
            /\ user_memory[u] = log[2].loaded \o Record(log[2])
            /\ user_memory[u] # ConcatRecords(log)

\* the save of turn t executes in this step
TurnSaved(t) == pc[t] = "save_execute" /\ pc'[t] = "reply"

\* the row of user v, if there is one
RowOf(table, v) == IF v \in DOMAIN table THEN <<table[v]>> ELSE << >>

\* the transcript stored for user v by the saves executed so far
StoredFor(v) == IF last_saved[v] = NoSave THEN "" ELSE last_saved[v]

\* C11: under every interleaving of turns and resets, a step changes or
\* creates the row of a user only when it is the save of a turn or of a
\* reset of that same user; the transcript a turn loads is the one stored
\* for its own user, its prompt is built from that transcript and its own
\* message, and what its save stores is that transcript followed by the
\* record of its own message and reply, whatever other handlers are doing
C11_UserIndependence ==
    [][/\ \A v \in Users :
             RowOf(user_memory', v) # RowOf(user_memory, v) =>
                 \/ \E t \in Turns : TurnSaved(t) /\ user_id[t] = v
                 \/ \E r \in Resets : ResetSaved(r) /\ ruser[r] = v
       /\ \A t \in Turns :
             /\ Fetched(t) =>
                    /\ previous_convo'[t] = StoredFor(user_id[t])
                    /\ prompt'[t] = HINATA_PERSONA \o "\n\n"
                           \o StoredFor(user_id[t]) \o "\nUser: "
                           \o strip(text[t]) \o "\nHinata:"
             /\ (pc[t] \in {"generate", "save_acquire", "save_execute"}
                     /\ pc'[t] \notin {"except", "done"}) =>
                    /\ previous_convo'[t] = previous_convo[t]
                    /\ user_message'[t] = strip(text[t])
             /\ TurnSaved(t) =>
                    /\ user_memory'[user_id[t]] = previous_convo[t]
                           \o "\nUser: " \o user_message[t]
                           \o "\nHinata: " \o reply[t]
                    /\ reply_texts'[t] = <<reply[t]>>]_vars

\* a turn of one user has saved a transcript while a turn of another user,
\* which loaded the empty transcript of its own user, is executing its save
C11_Witness ==
    \E t, o \in Turns :
        /\ pc[t] = "reply" /\ pc[o] = "save_execute"
        /\ user_id[t] # user_id[o]
        /\ user_memory[user_id[t]] = updated_convo[t]
        /\ user_memory[user_id[t]] # ""
        /\ previous_convo[o] = ""
        /\ user_id[o] \notin DOMAIN user_memory

\* the transcript stored for user v in `table`, empty when there is no row
Transcript(table, v) == IF v \in DOMAIN table THEN table[v] ELSE ""

\* the record turn t appends
TurnRecord(t) == "\nUser: " \o user_message[t] \o "\nHinata: " \o reply[t]

\* no save of a turn and no reset of its user has executed since turn t
\* read the row
LoadedIsCurrent(t) ==
    /\ Len(saved_log[user_id[t]]) = seen_saves[t]
    /\ ResetsExecuted(user_id[t]) = seen_resets[t]

\* C12 as amended: in every step the stored transcript of a user stays the
\* same, becomes the empty string through a reset, or becomes the transcript
\* the saving turn had loaded extended at the end by that turn's record;
\* that is the previous stored value extended by one record whenever no
\* other save and no reset of the user executed between the turn's load and
\* its save
C12_AppendToLoaded ==
    [][\A v \in Users :
          \/ RowOf(user_memory', v) = RowOf(user_memory, v)
          \/ \E r \in Resets :
                 /\ ResetSaved(r) /\ ruser[r] = v
                 /\ Transcript(user_memory', v) = ""
          \/ \E t \in Turns :
                 /\ TurnSaved(t) /\ user_id[t] = v
                 /\ Transcript(user_memory', v) =
                        previous_convo[t] \o TurnRecord(t)
                 /\ LoadedIsCurrent(t) =>
                        Transcript(user_memory', v) =
                            Transcript(user_memory, v) \o TurnRecord(t)]_vars

\* C12 as claimed: in every step the stored transcript stays the same,
\* becomes empty through a reset, or becomes its previous stored value
\* extended at the end by one turn record
C12_Original ==
    [][\A v \in Users :
          \/ Transcript(user_memory', v) = Transcript(user_memory, v)
          \/ \E r \in Resets :
                 /\ ResetSaved(r) /\ ruser[r] = v
                 /\ Transcript(user_memory', v) = ""
          \/ \E t \in Turns :
                 /\ TurnSaved(t) /\ user_id[t] = v
                 /\ Transcript(user_memory', v) =
                        Transcript(user_memory, v) \o TurnRecord(t)]_vars

\* a turn has extended the non-empty transcript it loaded, which was still
\* the stored one, and the row holds two records
C12_Witness ==
    \E t \in Turns :
        /\ pc[t] = "reply"
        /\ previous_convo[t] # ""
        /\ Len(saved_log[user_id[t]]) = seen_saves[t] + 1
        /\ ResetsExecuted(user_id[t]) = seen_resets[t]
        /\ user_memory[user_id[t]] = previous_convo[t] \o TurnRecord(t)
        /\ user_memory[user_id[t]] = ConcatRecords(saved_log[user_id[t]])

\* C13 as claimed: a completion that is empty after trimming is handled as a
\* failure of the model call: no turn goes on to its save with an empty
\* reply, no record with an empty reply is ever stored, and the empty reply
\* is never handed to reply_text
C13_EmptyCompletionIsError ==
    /\ \A t \in Turns :
           /\ response[t] # Unset => Trimmed[response[t]] # ""
           /\ \A i \in 1..Len(reply_texts[t]) : reply_texts[t][i] # ""
    /\ \A u \in Users :
           \A i \in 1..Len(saved_log[u]) : saved_log[u][i].reply # ""

\* a turn whose completion was empty has ended without any failure: the
\* row holds its record with an empty reply, and the empty reply was handed
\* to reply_text
C13_Witness ==
    \E t \in Turns, u \in Users :
        /\ pc[t] = "done" /\ failed[t] = "none" /\ raised[t] = "none"
        /\ reply_texts[t] = <<"">>
        /\ last_writer[u] = TurnWrite(t)
        /\ user_memory[u] = "\nUser: Hello\nHinata: "

\* C14 as claimed: a get or save that needs a connection while every
\* connection of the pool is in use fails instead of waiting: a turn whose
\* acquire found the pool exhausted is never given a connection for that
\* call
C14_ExhaustionFails ==
    \A t \in Turns :
        waited[t] => pc[t] \notin {"get_fetch", "save_execute"}

\* a turn whose acquire for its save found the pool exhausted has waited,
\* was given a connection when one was released, and has saved
C14_Witness ==
    \E t \in Turns :
        /\ pc[t] = "save_execute"
        /\ waited[t]
        /\ failed[t] = "none"

\* the awaits of chat whose call is one that returns: the reply_text and
\* send_chat_action calls and the statement on an acquired connection
ReturningAwaits ==
    {"reject", "typing", "get_fetch", "save_execute", "reply", "except"}

\* C15 as claimed: a turn that is in its model call holds no connection and
\* no other shared resource, the event loop included, so whatever turns are
\* in their model call, every other turn that is at an await whose call
\* returns can be resumed
C15_HungCallStallsOnlyItsTurn ==
    \A t \in Turns :
        pc[t] = "generate" =>
            /\ t \notin blocking
            /\ pool_in_use <= Cardinality(
                   {o \in Turns : pc[o] \in {"get_fetch", "save_execute"}})
                 + Cardinality({r \in Resets : rpc[r] = "save_execute"})
            /\ \A o \in Turns \ {t} :
                   pc[o] \in ReturningAwaits =>
                       ENABLED TurnStep(o, Completions)

\* a turn is inside a model call that keeps the event loop while another
\* turn, of another user, holds a connection and waits to be resumed with
\* the result of its SELECT
C15_Witness ==
    \E t, o \in Turns :
        /\ blocking = {t}
        /\ pc[t] = "generate"
        /\ pc[o] = "get_fetch"
        /\ user_id[o] # user_id[t]
        /\ pool_in_use = 1

\* C16 as claimed, without its termination part: a turn hands at most one
\* reply to reply_text and, when its handler has returned, exactly one: the
\* rejection reply when it made no call, the fallback reply when a call
\* failed, else the generated reply after its save; the get comes before
\* the model call and that before the save; and the except clause (Failed)
\* is entered only from the get, the model call or the save, with the
\* fallback reply as the turn's only reply
C16_TurnStateMachine ==
    \A t \in Turns :
        /\ Len(reply_texts[t]) <= 1
        /\ (pc[t] = "done" /\ raised[t] = "none") =>
               /\ Len(reply_texts[t]) = 1
               /\ \/ reply_texts[t] = <<REJECT_REPLY>> /\ calls[t] = NoCalls
                  \/ reply_texts[t] = <<FALLBACK_REPLY>> /\ failed[t] # "none"
                  \/ writes[t] = 1 /\ failed[t] = "none"
        /\ calls[t].save <= calls[t].model
        /\ calls[t].model <= calls[t].get
        /\ calls[t].get <= 1
        /\ pc[t] = "except" =>
               /\ failed[t] \in {"get", "model", "save"}
               /\ reply_texts[t] = <<FALLBACK_REPLY>>

\* a turn has entered the except clause from the reply_text of its
\* generated reply, after its save, and has handed a second reply to
\* reply_text
C16_Witness ==
    \E t \in Turns :
        /\ pc[t] = "except"
        /\ failed[t] = "send"
        /\ writes[t] = 1
        /\ Len(reply_texts[t]) = 2
        /\ reply_texts[t][2] = FALLBACK_REPLY

\* a save has executed for user u, by a turn or by a reset
SaveExecutedFor(u) == saved_log[u] # << >> \/ ResetsExecuted(u) > 0

\* C17 as amended: a user's row is created only by the first save executed
\* for that user, which is the save of a turn whose get and model call
\* succeeded or the save of a reset; a user for whom no save has executed
\* (only rejected turns, turns whose get, model call or save failed, or no
\* turns, and no reset) has no row; a reset leaves a row holding the empty
\* transcript; and a row that exists exists in every later state
C17_RecordLifecycle ==
    [][\A u \in Users :
          /\ u \in DOMAIN user_memory <=> SaveExecutedFor(u)
          /\ u \in DOMAIN user_memory' <=> SaveExecutedFor(u)'
          /\ (u \notin DOMAIN user_memory /\ u \in DOMAIN user_memory') =>
                 \/ \E t \in Turns :
                        /\ TurnSaved(t) /\ user_id[t] = u
                        /\ failed[t] = "none"
                        /\ calls[t] = [get |-> 1, model |-> 1, save |-> 1]
                 \/ \E r \in Resets : ResetSaved(r) /\ ruser[r] = u
          /\ u \in DOMAIN user_memory => u \in DOMAIN user_memory'
          /\ \A r \in Resets :
                 (ResetSaved(r) /\ ruser[r] = u) =>
                     u \in DOMAIN user_memory' /\ user_memory'[u] = ""]_vars

\* C17 as claimed: a row is created only by the save of a turn of that
\* user, a reset clears the transcript of the row without deleting it, and
\* a row that exists exists in every later state
C17_Original ==
    [][\A u \in Users :
          /\ (u \notin DOMAIN user_memory /\ u \in DOMAIN user_memory') =>
                 \E t \in Turns : TurnSaved(t) /\ user_id[t] = u
          /\ u \in DOMAIN user_memory => u \in DOMAIN user_memory'
          /\ \A r \in Resets :
                 (ResetSaved(r) /\ ruser[r] = u) =>
                     u \in DOMAIN user_memory' /\ user_memory'[u] = ""]_vars

\* a user whose only turn was rejected has a row, created by a reset, and
\* another user whose turns failed in the get and in the save has none
C17_Witness ==
    \E u, v \in Users, r \in Resets, t, o \in Turns :
        /\ u \in DOMAIN user_memory /\ user_memory[u] = ""
        /\ saved_log[u] = << >>
        /\ rpc[r] = "done" /\ ruser[r] = u
        /\ v \notin DOMAIN user_memory
        /\ pc[t] = "done" /\ pc[o] = "done"
        /\ {failed[t], failed[o]} \cap {"get", "model", "save"} # {}
        /\ <<REJECT_REPLY>> \in {reply_texts[t], reply_texts[o]}

\* C18: within one turn the get, the model call and the save are each
\* started at most once, and once one of its awaits has raised the turn
\* starts no further get, model call or save and writes nothing: all that
\* is left of it is the reply_text of the fallback reply
C18_NoRetry ==
    [][\A t \in Turns :
          /\ calls'[t].get <= 1
          /\ calls'[t].model <= 1
          /\ calls'[t].save <= 1
          /\ failed[t] # "none" =>
                 /\ calls'[t] = calls[t]
                 /\ writes'[t] = writes[t]
                 /\ failed'[t] = failed[t]
                 /\ pc[t] \in {"except", "done"}
                 /\ pc'[t] \in {"except", "done"}]_vars

\* a turn whose model call failed has ended after one get and one model
\* call, without a save, while the other turn ran to its end without failure
C18_Witness ==
    \E t, o \in Turns :
        /\ pc[t] = "done" /\ failed[t] = "model"
        /\ calls[t] = [get |-> 1, model |-> 1, save |-> 0]
        /\ reply_texts[t] = <<FALLBACK_REPLY>>
        /\ pc[o] = "done" /\ failed[o] = "none"
        /\ calls[o] = [get |-> 1, model |-> 1, save |-> 1]

\* the saves of user u's turns executed after the user's last reset
SinceReset(u) ==
    SubSeq(saved_log[u], cleared_at[u] + 1, Len(saved_log[u]))

\* the transcripts made of records of `log` only, in the order of the log
RECURSIVE TranscriptsFrom(_)
TranscriptsFrom(log) ==
    IF log = << >> THEN {""}
    ELSE LET rest == TranscriptsFrom(Tail(log))
         IN  rest \cup {Record(Head(log)) \o x : x \in rest}

\* C19 as amended: once a reset of a user has executed, the stored
\* transcript is made only of records of turns that saved after the reset,
\* as long as each of those turns had loaded its transcript after the reset;
\* a turn that loaded before the reset and saves after it stores the
\* transcript it loaded, with the records from before the reset, followed
\* by its own record
C19_ResetOutlivesFreshTurns ==
    \A u \in Users :
        ResetsExecuted(u) > 0 =>
            /\ (\A i \in 1..Len(SinceReset(u)) : ~SinceReset(u)[i].stale) =>
                   Transcript(user_memory, u) \in TranscriptsFrom(SinceReset(u))
            /\ (Len(SinceReset(u)) > 0 /\ last_writer[u] # ResetWrite) =>
                   LET e == saved_log[u][Len(saved_log[u])]
                   IN  user_memory[u] = e.loaded \o Record(e)

\* C19 as claimed: once a reset of a user has completed (its save has
\* executed and its handler has ended), the stored transcript is made only
\* of records of turns that saved after the reset
C19_Original ==
    \A u \in Users :
        (\E r \in Resets :
             /\ rpc[r] = "done" /\ rraised[r] # "StorageError"
             /\ ruser[r] = u) =>
            Transcript(user_memory, u) \in TranscriptsFrom(SinceReset(u))

\* after a reset of a user that had a stored record, a turn that loaded the
\* empty transcript after the reset has saved: the row holds its record alone
C19_Witness ==
    \E u \in Users :
        /\ ResetsExecuted(u) > 0
        /\ cleared_at[u] = 1
        /\ Len(saved_log[u]) = 2
        /\ ~saved_log[u][2].stale
        /\ saved_log[u][1].reply # ""
        /\ user_memory[u] = Record(saved_log[u][2])

\* C20 as claimed: the generated reply is handed to reply_text only after
\* this turn's save has executed, and a turn that has handed the fallback
\* reply to reply_text has written nothing to the table
C20_ReplyAgreesWithStore ==
    \A t \in Turns :
        \A i \in 1..Len(reply_texts[t]) :
            /\ reply_texts[t][i] \notin {REJECT_REPLY, FALLBACK_REPLY} =>
                   writes[t] = 1
            /\ reply_texts[t][i] = FALLBACK_REPLY => writes[t] = 0

\* a turn has ended with the fallback reply after the reply_text of its
\* generated reply raised, and the row holds the record this turn saved
C20_Witness ==
    \E t \in Turns, u \in Users :
        /\ pc[t] = "done" /\ raised[t] = "none"
        /\ failed[t] = "send"
        /\ reply_texts[t] = <<"Hi!", FALLBACK_REPLY>>
        /\ writes[t] = 1
        /\ last_writer[u] = TurnWrite(t)
        /\ user_memory[u] = "\nUser: Hello\nHinata: Hi!"

====
